---- MODULE Spec2Model ----
(***************************************************************************)
(* Model of create_enhanced_labels.py: the Catalogue of Life cache, the    *)
(* taxon / vernacular-name join, the label classifier and formatter, the   *)
(* enhanced_labels.csv writer and the script entry point.                  *)
(*                                                                         *)
(* A Python str is a tuple of one-character strings.  None is the tuple    *)
(* <<"None">>, which is no str because its element is not one character.   *)
(***************************************************************************)
EXTENDS Integers, Sequences, FiniteSets, TLC

\* ------------------------------------------------------------------ bounds
MaxLen == 5          \* longest label given to the two pure functions
MaxLabelRows == 2    \* rows of labels.csv
MaxTaxaRows == 2     \* rows of NameUsage.tsv
MaxVernRows == 2     \* rows of VernacularName.tsv
MaxRuns == 2         \* invocations of the script over one cache directory

\* -------------------------------------------------------------- characters
UpperSeq == <<"A","B","C","D","E","F","G","H","I","J","K","L","M",
              "N","O","P","Q","R","S","T","U","V","W","X","Y","Z">>
LowerSeq == <<"a","b","c","d","e","f","g","h","i","j","k","l","m",
              "n","o","p","q","r","s","t","u","v","w","x","y","z">>
UpperChars == {UpperSeq[i] : i \in DOMAIN UpperSeq}
LowerChars == {LowerSeq[i] : i \in DOMAIN LowerSeq}
WhiteChars == {" ", "\t"}

None == <<"None">>
EmptyStr == <<>>

\* str.isupper / str.islower of one character, str.isalpha of a token
isupper(c) == c \in UpperChars
islower(c) == c \in LowerChars
isalpha(s) == s # <<>> /\ \A i \in DOMAIN s : s[i] \in UpperChars \cup LowerChars

\* str.lower
LowerChar(c) ==
  IF c \in UpperChars
    THEN LowerSeq[CHOOSE i \in DOMAIN UpperSeq : UpperSeq[i] = c]
    ELSE c
lower(s) == [i \in DOMAIN s |-> LowerChar(s[i])]

\* str.strip() with no argument
RECURSIVE lstrip(_)
lstrip(s) ==
  IF s # <<>> /\ Head(s) \in WhiteChars THEN lstrip(Tail(s)) ELSE s
RECURSIVE rstrip(_)
rstrip(s) ==
  IF s # <<>> /\ s[Len(s)] \in WhiteChars
    THEN rstrip(SubSeq(s, 1, Len(s) - 1)) ELSE s
strip(s) == rstrip(lstrip(s))

\* str.split() with no argument: maximal runs of non-whitespace
RECURSIVE SplitFrom(_, _, _)
SplitFrom(s, cur, acc) ==
  IF s = <<>>
    THEN (IF cur = <<>> THEN acc ELSE Append(acc, cur))
    ELSE IF Head(s) \in WhiteChars
      THEN SplitFrom(Tail(s), <<>>, IF cur = <<>> THEN acc ELSE Append(acc, cur))
      ELSE SplitFrom(Tail(s), Append(cur, Head(s)), acc)
split(s) == SplitFrom(s, <<>>, <<>>)

\* str.replace('_', ' ')
replace_underscore(s) == [i \in DOMAIN s |-> IF s[i] = "_" THEN " " ELSE s[i]]

\* "ch in s"
Contains(s, ch) == \E i \in DOMAIN s : s[i] = ch

\* re.sub(r'\s*\([^)]*\)', '', s): scan left to right; at each position the
\* pattern takes the whole whitespace run (backtracking cannot help, the next
\* character must be '('), then '(', then everything up to the first ')'.
WsEnd(s, i) ==
  CHOOSE j \in i..(Len(s) + 1) :
    /\ \A k \in i..(j - 1) : s[k] \in WhiteChars
    /\ (j = Len(s) + 1 \/ s[j] \notin WhiteChars)
MatchEnd(s, i) ==
  LET j == WsEnd(s, i) IN
  IF j <= Len(s) /\ s[j] = "(" /\ \E k \in (j + 1)..Len(s) : s[k] = ")"
    THEN CHOOSE k \in (j + 1)..Len(s) :
           s[k] = ")" /\ \A m \in (j + 1)..(k - 1) : s[m] # ")"
    ELSE 0
RECURSIVE SubFrom(_, _)
SubFrom(s, i) ==
  IF i > Len(s) THEN <<>>
  ELSE LET e == MatchEnd(s, i) IN
       IF e # 0 THEN SubFrom(s, e + 1) ELSE <<s[i]>> \o SubFrom(s, i + 1)
re_sub_parens(s) == SubFrom(s, 1)

\* is_scientific_name with "len(parts) != 2" weakened to "len(parts) < 2"
is_scientific_name_long(label) ==
  IF Contains(label, "_") \/ Contains(label, "(") THEN FALSE
  ELSE LET parts == split(strip(label)) IN
       IF Len(parts) < 2 THEN FALSE
       ELSE LET genus == parts[1]
                species == parts[2] IN
            IF ~(isupper(genus[1]) /\ islower(species[1])) THEN FALSE
            ELSE IF ~(isalpha(genus) /\ isalpha(species)) THEN FALSE
            ELSE TRUE

\* is_scientific_name, lines 110-132
is_scientific_name(label) ==
  IF Contains(label, "_") \/ Contains(label, "(") THEN FALSE
  ELSE LET parts == split(strip(label)) IN
       IF Len(parts) # 2 THEN FALSE
       ELSE LET genus == parts[1]
                species == parts[2] IN
            IF ~(isupper(genus[1]) /\ islower(species[1])) THEN FALSE
            ELSE IF ~(isalpha(genus) /\ isalpha(species)) THEN FALSE
            ELSE TRUE

\* genus[0] / species[0] on an empty token is the one place line 125 can raise
is_scientific_name_raises(label) ==
  /\ ~(Contains(label, "_") \/ Contains(label, "("))
  /\ LET parts == split(strip(label)) IN
       Len(parts) = 2 /\ (parts[1] = <<>> \/ parts[2] = <<>>)

\* format_non_species_label with a pattern that leaves the whitespace in place
format_non_species_label_gap(label) ==
  LET u == replace_underscore(label)
      RECURSIVE Cut(_)
      Cut(i) ==
        IF i > Len(u) THEN <<>>
        ELSE IF u[i] = "(" /\ \E k \in (i + 1)..Len(u) : u[k] = ")"
          THEN Cut((CHOOSE k \in (i + 1)..Len(u) :
                      u[k] = ")" /\ \A m \in (i + 1)..(k - 1) : u[m] # ")") + 1)
          ELSE <<u[i]>> \o Cut(i + 1)
  IN strip(Cut(1))

\* format_non_species_label, lines 134-144
format_non_species_label(label) ==
  strip(re_sub_parens(replace_underscore(label)))


\* ------------------------------------------------------- files and dicts
\* A file is absent or holds a header line and rows of cells; csv.DictReader
\* and csv.reader deliver the rows, a blank line of labels.csv being <<>>.
Absent == [exists |-> FALSE, header |-> <<>>, rows |-> <<>>]
File(h, r) == [exists |-> TRUE, header |-> h, rows |-> r]

\* A dict is a set of [k, v] entries with distinct keys.
EmptyDict == {}
Has(d, key) == \E e \in d : e.k = key
Lookup(d, key) == (CHOOSE e \in d : e.k = key).v
Put(d, key, val) == {e \in d : e.k # key} \cup {[k |-> key, v |-> val]}
Keys(d) == {e.k : e \in d}

\* row.get(key, default) on a csv.DictReader row: a column the header lacks
\* gives the default, a column the short row lacks gives restval = None.
Get(header, row, key, default) ==
  IF \E i \in DOMAIN header : header[i] = key
    THEN LET i == CHOOSE j \in DOMAIN header :
                    header[j] = key /\ \A m \in 1..(j - 1) : header[m] # key
         IN IF i <= Len(row) THEN row[i] ELSE None
    ELSE default

Aves == <<"A","v","e","s">>
SpeciesRank == <<"s","p","e","c","i","e","s">>
EnglishCodes == {<<"e","n">>, <<"e","n","g">>, <<"e","n","g","l","i","s","h">>}
OutputHeader == <<"original_label", "common_name", "display_name">>

\* Exception classes the except clause of line 246 catches
ExceptionSubclasses ==
  {"URLError", "BadZipFile", "FileNotFoundError", "AttributeError", "IndexError"}

\* ------------------------------------------------------------------ state
VARIABLES
  remote,           \* what COL_DATA_URL serves: [valid, taxa, vern]
  zipFile,          \* COL_CACHE_FILE: [exists, content]
  taxaFile,         \* COL_EXTRACTED_DIR / NameUsage.tsv
  vernFile,         \* COL_EXTRACTED_DIR / VernacularName.tsv
  cacheDir,         \* CACHE_DIR exists
  extractedDir,     \* COL_EXTRACTED_DIR exists
  labelsFile,       \* weights/assets/labels.csv
  outputFile,       \* weights/assets/enhanced_labels.csv
  pc,               \* position of the script
  exc,              \* exception in flight or caught, "none" if none
  exitStatus,       \* -1 while running, else the process exit status
  tracePrinted,     \* the handler printed the message and the traceback
  bird_taxa,        \* dict col:ID -> scientific name
  species_mapping,  \* dict scientific name -> common name
  rowIdx,           \* rows the current reader has delivered
  enhanced_labels,  \* list of records
  run,              \* which invocation of the script this is
  netCalls,         \* per run: calls of urlretrieve
  extractCalls,     \* per run: calls of extractall
  cacheOk,          \* per run: the three cache steps returned normally
  arg,              \* label handed to the pure functions
  ret_sci,          \* result of is_scientific_name(arg)
  ret_fmt,          \* result of format_non_species_label(arg)
  fnpc              \* which of the two has been called

envVars == <<remote, zipFile, taxaFile, vernFile, cacheDir, extractedDir,
             labelsFile, outputFile>>
procVars == <<pc, exc, exitStatus, tracePrinted, bird_taxa, species_mapping,
              rowIdx, enhanced_labels>>
ghostVars == <<run, netCalls, extractCalls, cacheOk>>
fnVars == <<arg, ret_sci, ret_fmt, fnpc>>
vars == <<envVars, procVars, ghostVars, fnVars>>

\* ----------------------------------------------------------- cache steps
\* ensure_cache_dir, lines 26-29
ensure_cache_dir ==
  /\ pc = "ensure_cache_dir"
  /\ cacheDir' = TRUE
  /\ extractedDir' = TRUE
  /\ pc' = "download_col_data"
  /\ UNCHANGED <<remote, zipFile, taxaFile, vernFile, labelsFile, outputFile>>
  /\ UNCHANGED <<exc, exitStatus, tracePrinted, bird_taxa, species_mapping,
                 rowIdx, enhanced_labels>>
  /\ UNCHANGED <<ghostVars, fnVars>>

\* download_col_data, lines 31-45; netUp is whether urlretrieve succeeds
download_col_data ==
  /\ pc = "download_col_data"
  /\ \E netUp \in BOOLEAN :
       IF zipFile.exists
         THEN /\ pc' = "extract_col_data"
              /\ UNCHANGED <<zipFile, exc, netCalls>>
         ELSE /\ netCalls' = [netCalls EXCEPT ![run] = @ + 1]
              /\ IF netUp
                   THEN /\ zipFile' = [exists |-> TRUE, content |-> remote]
                        /\ pc' = "extract_col_data"
                        /\ exc' = exc
                   ELSE /\ zipFile' = zipFile
                        /\ pc' = "except"
                        /\ exc' = "URLError"
  /\ UNCHANGED <<remote, taxaFile, vernFile, cacheDir, extractedDir,
                 labelsFile, outputFile>>
  /\ UNCHANGED <<exitStatus, tracePrinted, bird_taxa, species_mapping,
                 rowIdx, enhanced_labels>>
  /\ UNCHANGED <<run, extractCalls, cacheOk, fnVars>>

\* extract_col_data, lines 47-62
extract_col_data ==
  /\ pc = "extract_col_data"
  /\ IF taxaFile.exists /\ vernFile.exists
       THEN /\ pc' = "load_bird_species_mapping"
            /\ cacheOk' = [cacheOk EXCEPT ![run] = TRUE]
            /\ UNCHANGED <<taxaFile, vernFile, exc, extractCalls>>
       ELSE IF ~zipFile.content.valid
         THEN /\ pc' = "except"
              /\ exc' = "BadZipFile"
              /\ UNCHANGED <<taxaFile, vernFile, extractCalls, cacheOk>>
         ELSE /\ extractCalls' = [extractCalls EXCEPT ![run] = @ + 1]
              /\ taxaFile' = IF zipFile.content.taxa.exists
                               THEN zipFile.content.taxa ELSE taxaFile
              /\ vernFile' = IF zipFile.content.vern.exists
                               THEN zipFile.content.vern ELSE vernFile
              /\ pc' = "load_bird_species_mapping"
              /\ cacheOk' = [cacheOk EXCEPT ![run] = TRUE]
              /\ exc' = exc
  /\ UNCHANGED <<remote, zipFile, cacheDir, extractedDir, labelsFile, outputFile>>
  /\ UNCHANGED <<exitStatus, tracePrinted, bird_taxa, species_mapping,
                 rowIdx, enhanced_labels>>
  /\ UNCHANGED <<run, netCalls, fnVars>>

\* ------------------------------------------- load_bird_species_mapping
\* lines 64-76: missing files give a warning and an empty mapping
load_open ==
  /\ pc = "load_bird_species_mapping"
  /\ IF ~taxaFile.exists \/ ~vernFile.exists
       THEN /\ species_mapping' = EmptyDict
            /\ pc' = "open_labels"
            /\ UNCHANGED <<bird_taxa, rowIdx>>
       ELSE /\ bird_taxa' = EmptyDict
            /\ rowIdx' = 0
            /\ pc' = "scan_taxa"
            /\ UNCHANGED species_mapping
  /\ UNCHANGED <<envVars, exc, exitStatus, tracePrinted, enhanced_labels>>
  /\ UNCHANGED <<ghostVars, fnVars>>

\* lines 80-85 for one row of NameUsage.tsv
TaxaRowRaises(h, row) ==
  /\ Get(h, row, "col:class", None) = Aves
  /\ Get(h, row, "col:rank", None) = SpeciesRank
  /\ Get(h, row, "col:scientificName", EmptyStr) = None
TaxaRowResult(d, h, row) ==
  IF Get(h, row, "col:class", None) = Aves
     /\ Get(h, row, "col:rank", None) = SpeciesRank
    THEN LET scientific_name == strip(Get(h, row, "col:scientificName", EmptyStr)) IN
         IF scientific_name # <<>> /\ Contains(scientific_name, " ")
           THEN Put(d, Get(h, row, "col:ID", None), scientific_name)
           ELSE d
    ELSE d

scan_taxa_row ==
  /\ pc = "scan_taxa"
  /\ rowIdx < Len(taxaFile.rows)
  /\ LET row == taxaFile.rows[rowIdx + 1] IN
       IF TaxaRowRaises(taxaFile.header, row)
         THEN /\ exc' = "AttributeError"
              /\ pc' = "except"
              /\ UNCHANGED bird_taxa
         ELSE /\ bird_taxa' = TaxaRowResult(bird_taxa, taxaFile.header, row)
              /\ UNCHANGED <<pc, exc>>
  /\ rowIdx' = rowIdx + 1
  /\ UNCHANGED <<envVars, exitStatus, tracePrinted, species_mapping, enhanced_labels>>
  /\ UNCHANGED <<ghostVars, fnVars>>

\* lines 87-93: end of NameUsage.tsv, open VernacularName.tsv
taxa_eof ==
  /\ pc = "scan_taxa"
  /\ rowIdx = Len(taxaFile.rows)
  /\ species_mapping' = EmptyDict
  /\ rowIdx' = 0
  /\ pc' = "scan_vern"
  /\ UNCHANGED <<envVars, exc, exitStatus, tracePrinted, bird_taxa, enhanced_labels>>
  /\ UNCHANGED <<ghostVars, fnVars>>

\* lines 94-105 for one row of VernacularName.tsv
VernRowRaises(taxa, h, row) ==
  /\ Has(taxa, Get(h, row, "col:taxonID", None))
  /\ \/ Get(h, row, "col:name", EmptyStr) = None
     \/ Get(h, row, "col:language", EmptyStr) = None
\* the vernacular row handler without the "not in species_mapping" guard
VernRowResult_overwrite(m, taxa, h, row) ==
  LET taxon_id == Get(h, row, "col:taxonID", None) IN
  IF Has(taxa, taxon_id)
    THEN LET scientific_name == Lookup(taxa, taxon_id)
             vernacular_name == strip(Get(h, row, "col:name", EmptyStr))
             language == strip(Get(h, row, "col:language", EmptyStr))
         IN IF lower(language) \in EnglishCodes /\ vernacular_name # <<>>
              THEN Put(m, scientific_name, vernacular_name)
              ELSE m
    ELSE m
VernRowResult(m, taxa, h, row) ==
  LET taxon_id == Get(h, row, "col:taxonID", None) IN
  IF Has(taxa, taxon_id)
    THEN LET scientific_name == Lookup(taxa, taxon_id)
             vernacular_name == strip(Get(h, row, "col:name", EmptyStr))
             language == strip(Get(h, row, "col:language", EmptyStr))
         IN IF lower(language) \in EnglishCodes /\ vernacular_name # <<>>
              THEN IF ~Has(m, scientific_name)
                     THEN Put(m, scientific_name, vernacular_name)
                     ELSE m
              ELSE m
    ELSE m

scan_vern_row ==
  /\ pc = "scan_vern"
  /\ rowIdx < Len(vernFile.rows)
  /\ LET row == vernFile.rows[rowIdx + 1] IN
       IF VernRowRaises(bird_taxa, vernFile.header, row)
         THEN /\ exc' = "AttributeError"
              /\ pc' = "except"
              /\ UNCHANGED species_mapping
         ELSE /\ species_mapping' =
                   VernRowResult(species_mapping, bird_taxa, vernFile.header, row)
              /\ UNCHANGED <<pc, exc>>
  /\ rowIdx' = rowIdx + 1
  /\ UNCHANGED <<envVars, exitStatus, tracePrinted, bird_taxa, enhanced_labels>>
  /\ UNCHANGED <<ghostVars, fnVars>>

\* lines 107-108: end of VernacularName.tsv, return species_mapping
vern_eof ==
  /\ pc = "scan_vern"
  /\ rowIdx = Len(vernFile.rows)
  /\ pc' = "open_labels"
  /\ UNCHANGED <<envVars, exc, exitStatus, tracePrinted, bird_taxa,
                 species_mapping, rowIdx, enhanced_labels>>
  /\ UNCHANGED <<ghostVars, fnVars>>

\* ------------------------------------------------------- process_labels
\* open_labels taking a missing labels.csv for an empty one
open_labels_lenient ==
  /\ pc = "open_labels"
  /\ pc' = "read_labels"
  /\ exc' = exc
  /\ enhanced_labels' = <<>>
  /\ rowIdx' = 0
  /\ UNCHANGED <<envVars, exitStatus, tracePrinted, bird_taxa, species_mapping>>
  /\ UNCHANGED <<ghostVars, fnVars>>

\* lines 162-170: open labels.csv
open_labels ==
  /\ pc = "open_labels"
  /\ IF ~labelsFile.exists
       THEN /\ exc' = "FileNotFoundError"
            /\ pc' = "except"
       ELSE /\ pc' = "read_labels"
            /\ exc' = exc
  /\ enhanced_labels' = <<>>
  /\ rowIdx' = 0
  /\ UNCHANGED <<envVars, exitStatus, tracePrinted, bird_taxa, species_mapping>>
  /\ UNCHANGED <<ghostVars, fnVars>>

\* the record with an unmapped scientific label shown as the empty name
LabelRecord_blank(m, row) ==
  LET original_label == strip(row[1]) IN
  IF is_scientific_name(original_label)
    THEN LET common_name == IF Has(m, original_label)
                              THEN Lookup(m, original_label) ELSE EmptyStr
         IN [original_label |-> original_label,
             common_name |-> common_name,
             display_name |-> common_name]
    ELSE [original_label |-> original_label,
          common_name |-> EmptyStr,
          display_name |-> format_non_species_label(original_label)]

\* lines 175-203: the record appended for one non-blank row
LabelRecord(m, row) ==
  LET original_label == strip(row[1]) IN
  IF is_scientific_name(original_label)
    THEN LET common_name == IF Has(m, original_label)
                              THEN Lookup(m, original_label) ELSE None
             truthy == common_name # None /\ common_name # <<>>
         IN [original_label |-> original_label,
             common_name |-> IF truthy THEN common_name ELSE EmptyStr,
             display_name |-> IF truthy THEN common_name ELSE original_label]
    ELSE [original_label |-> original_label,
          common_name |-> EmptyStr,
          display_name |-> format_non_species_label(original_label)]

\* lines 171-203 for one row of labels.csv
read_label_row ==
  /\ pc = "read_labels"
  /\ rowIdx < Len(labelsFile.rows)
  /\ LET row == labelsFile.rows[rowIdx + 1] IN
       IF row = <<>>
         THEN UNCHANGED <<pc, exc, enhanced_labels>>
         ELSE IF is_scientific_name_raises(strip(row[1]))
           THEN /\ exc' = "IndexError"
                /\ pc' = "except"
                /\ UNCHANGED enhanced_labels
           ELSE /\ enhanced_labels' =
                     Append(enhanced_labels, LabelRecord(species_mapping, row))
                /\ UNCHANGED <<pc, exc>>
  /\ rowIdx' = rowIdx + 1
  /\ UNCHANGED <<envVars, exitStatus, tracePrinted, bird_taxa, species_mapping>>
  /\ UNCHANGED <<ghostVars, fnVars>>

\* the writer emitting the records last to first
OutputRows_reversed(records) ==
  <<OutputHeader>> \o
    [i \in DOMAIN records |->
       <<records[Len(records) + 1 - i].original_label,
         records[Len(records) + 1 - i].common_name,
         records[Len(records) + 1 - i].display_name>>]

\* lines 213-225: the rows csv.writer is given
OutputRows(records) ==
  <<OutputHeader>> \o
    [i \in DOMAIN records |-> <<records[i].original_label,
                                records[i].common_name,
                                records[i].display_name>>]

\* lines 205-241: end of labels.csv, write enhanced_labels.csv, return
write_output ==
  /\ pc = "read_labels"
  /\ rowIdx = Len(labelsFile.rows)
  /\ outputFile' = [exists |-> TRUE, header |-> <<>>,
                    rows |-> OutputRows(enhanced_labels)]
  /\ pc' = "return"
  /\ UNCHANGED <<remote, zipFile, taxaFile, vernFile, cacheDir, extractedDir,
                 labelsFile>>
  /\ UNCHANGED <<exc, exitStatus, tracePrinted, bird_taxa, species_mapping,
                 rowIdx, enhanced_labels>>
  /\ UNCHANGED <<ghostVars, fnVars>>

\* ---------------------------------------------------------- entry point
\* An exception no except clause takes ends the interpreter with status 1;
\* falling off the end of the script ends it with status 0.
StatusAfterHandler(e) == IF e \in ExceptionSubclasses THEN 0 ELSE 1

\* lines 243-245: process_labels() returned
main_return ==
  /\ pc = "return"
  /\ pc' = "exited"
  /\ exitStatus' = 0
  /\ UNCHANGED <<envVars, exc, tracePrinted, bird_taxa, species_mapping,
                 rowIdx, enhanced_labels>>
  /\ UNCHANGED <<ghostVars, fnVars>>

\* lines 246-249: except Exception prints the message and the traceback
main_except ==
  /\ pc = "except"
  /\ pc' = "exited"
  /\ tracePrinted' = (exc \in ExceptionSubclasses)
  /\ exitStatus' = StatusAfterHandler(exc)
  /\ UNCHANGED <<envVars, exc, bird_taxa, species_mapping, rowIdx, enhanced_labels>>
  /\ UNCHANGED <<ghostVars, fnVars>>

\* line 243: the script is invoked again over the same directories
main_again ==
  /\ pc = "exited"
  /\ run < MaxRuns
  /\ run' = run + 1
  /\ pc' = "ensure_cache_dir"
  /\ exc' = "none"
  /\ exitStatus' = -1
  /\ tracePrinted' = FALSE
  /\ bird_taxa' = EmptyDict
  /\ species_mapping' = EmptyDict
  /\ rowIdx' = 0
  /\ enhanced_labels' = <<>>
  /\ UNCHANGED <<envVars, netCalls, extractCalls, cacheOk, fnVars>>

\* ------------------------------------------- the two pure functions alone
\* line 182: is_scientific_name(original_label)
call_is_scientific_name ==
  /\ fnpc = "start"
  /\ IF is_scientific_name_raises(arg)
       THEN /\ fnpc' = "raised"
            /\ UNCHANGED ret_sci
       ELSE /\ fnpc' = "classified"
            /\ ret_sci' = is_scientific_name(arg)
  /\ UNCHANGED <<arg, ret_fmt, envVars, procVars, ghostVars>>

\* line 198: format_non_species_label(original_label)
call_format_non_species_label ==
  /\ fnpc = "start"
  /\ fnpc' = "formatted"
  /\ ret_fmt' = format_non_species_label(arg)
  /\ UNCHANGED <<arg, ret_sci, envVars, procVars, ghostVars>>

\* ------------------------------------------------------------------ inputs
BoundedSeq(S, n) == UNION {[1..k -> S] : k \in 0..n}

S_Cc == <<"C", " ", "c">>
S_Dd == <<"D", " ", "d">>
S_R == <<"R">>
S_K == <<"K">>
T1 == <<"T", "1">>
T2 == <<"T", "2">>

\* header lines of the two tables; the columns the code reads, in two orders
TaxaHeader == <<"col:ID", "col:scientificName", "col:rank", "col:class">>
TaxaHeaderAlt == <<"col:ID", "col:rank", "col:class", "col:scientificName">>
VernHeader == <<"col:taxonID", "col:name", "col:language">>

TaxaRow(h, id, sci, rank, cls) ==
  [i \in DOMAIN h |->
     CASE h[i] = "col:ID" -> id
       [] h[i] = "col:scientificName" -> sci
       [] h[i] = "col:rank" -> rank
       [] OTHER -> cls]

\* rows of NameUsage.tsv: qualifying, same name under another id, padded
\* name, uninomial, other rank, and a row one cell short
TaxaRowPool(h) ==
  { TaxaRow(h, T1, S_Cc, SpeciesRank, Aves),
    TaxaRow(h, T2, S_Cc, SpeciesRank, Aves),
    TaxaRow(h, T2, <<" ", "D", " ", "d", " ">>, SpeciesRank, Aves),
    TaxaRow(h, T1, <<"C">>, SpeciesRank, Aves),
    TaxaRow(h, T1, S_Cc, <<"g", "e", "n", "u", "s">>, Aves),
    SubSeq(TaxaRow(h, T1, S_Cc, SpeciesRank, Aves), 1, 3) }

\* rows of VernacularName.tsv: English in several spellings, padded cells,
\* other language, blank name, a taxon the index may lack, a short row
VernRowPool ==
  { <<T1, S_R, <<"e", "n">>>>,
    <<T1, S_K, <<"E", "n", "g", "l", "i", "s", "h">>>>,
    <<T2, S_K, <<" ", "e", "n">>>>,
    <<T1, <<" ", "R", " ">>, <<"e", "n", "g">>>>,
    <<T1, S_K, <<"f", "r">>>>,
    <<T1, <<" ">>, <<"e", "n">>>>,
    <<T1>> }

\* rows of labels.csv: a blank line, a row of two fields, and one-field rows
\* with mapped, unmapped and padded binomials, tags and degenerate labels
PickedLabels ==
  { <<>>, <<" ">>, <<"_">>, S_Cc, S_Dd, <<" ", "C", " ", "c", " ">>,
    <<"c", "_", "(", "c", ")">>, <<"(", "c", ")">>, <<"c", "c">> }
LabelRowPool == {<<>>, <<S_Cc, S_R>>} \cup {<<l>> : l \in PickedLabels}

CorvusCorax == <<"C","o","r","v","u","s"," ","c","o","r","a","x">>
Corvus_corax == <<"C","o","r","v","u","s","_","c","o","r","a","x">>
CorvusCoraxLinnaeus == CorvusCorax \o <<" ","l","i","n","n","a","e","u","s">>
corvusCorax == <<"c","o","r","v","u","s"," ","c","o","r","a","x">>
HumanVocalSong ==
  <<"H","u","m","a","n","_","v","o","c","a","l","_","(","s","o","n","g",")">>
HumanVocal == <<"H","u","m","a","n"," ","v","o","c","a","l">>
FnAlphabet == {"C", "c", "1", " ", "_", "(", ")"}
FnLabels ==
  BoundedSeq(FnAlphabet, MaxLen)
    \cup {CorvusCorax, Corvus_corax, CorvusCoraxLinnaeus, corvusCorax,
          HumanVocalSong, <<"c", "_", "(", "c", ")", "_", "c">>}

SmallTaxa == File(TaxaHeader, <<TaxaRow(TaxaHeader, T1, S_Cc, SpeciesRank, Aves)>>)
SmallVerns == { File(VernHeader, <<<<T1, S_R, <<"e", "n">>>>>>),
                File(VernHeader, <<<<T1>>>>) }
SmallLabels == { File(<<>>, <<<<S_Cc>>, <<<<"c", "_", "c">>>>>>),
                 File(<<>>, <<<<<<"_">>>>>>) }
RemotePool ==
  {[valid |-> FALSE, taxa |-> Absent, vern |-> Absent]}
    \cup {[valid |-> TRUE, taxa |-> t, vern |-> v] :
            t \in {Absent, SmallTaxa}, v \in {Absent} \cup SmallVerns}

\* --------------------------------------------------------- specifications
ProcStart(p) ==
  /\ pc = p
  /\ exc = "none"
  /\ exitStatus = -1
  /\ tracePrinted = FALSE
  /\ bird_taxa = EmptyDict
  /\ rowIdx = 0
  /\ enhanced_labels = <<>>
  /\ run = 1
  /\ netCalls = [r \in 1..MaxRuns |-> 0]
  /\ extractCalls = [r \in 1..MaxRuns |-> 0]
FnIdle ==
  /\ arg = <<>>
  /\ ret_sci = FALSE
  /\ ret_fmt = <<>>
  /\ fnpc = "idle"

\* the whole script, from its first line, over any state of the cache
Init ==
  /\ remote \in RemotePool
  /\ zipFile \in {[exists |-> e, content |-> remote] : e \in BOOLEAN}
  /\ taxaFile \in {Absent, remote.taxa}
  /\ vernFile \in {Absent, remote.vern}
  /\ extractedDir = (taxaFile.exists \/ vernFile.exists)
  /\ cacheDir = (zipFile.exists \/ extractedDir)
  /\ labelsFile \in {Absent} \cup SmallLabels
  /\ outputFile = Absent
  /\ ProcStart("ensure_cache_dir")
  /\ species_mapping = EmptyDict
  /\ cacheOk = [r \in 1..MaxRuns |-> FALSE]
  /\ FnIdle

Next ==
  \/ ensure_cache_dir
  \/ download_col_data
  \/ extract_col_data
  \/ load_open
  \/ scan_taxa_row
  \/ taxa_eof
  \/ scan_vern_row
  \/ vern_eof
  \/ open_labels
  \/ read_label_row
  \/ write_output
  \/ main_return
  \/ main_except
  \/ main_again

Spec == Init /\ [][Next]_vars

\* load_bird_species_mapping over any two tables, the cache being in place
InitLoad ==
  /\ taxaFile \in
       {File(TaxaHeader, r) : r \in BoundedSeq(TaxaRowPool(TaxaHeader), MaxTaxaRows)}
         \cup {File(TaxaHeaderAlt, r) : r \in BoundedSeq(TaxaRowPool(TaxaHeaderAlt), 1)}
  /\ vernFile \in {File(VernHeader, r) : r \in BoundedSeq(VernRowPool, MaxVernRows)}
  /\ remote = [valid |-> TRUE, taxa |-> taxaFile, vern |-> vernFile]
  /\ zipFile = [exists |-> TRUE, content |-> remote]
  /\ extractedDir = TRUE
  /\ cacheDir = TRUE
  /\ labelsFile = Absent
  /\ outputFile = Absent
  /\ ProcStart("load_bird_species_mapping")
  /\ species_mapping = EmptyDict
  /\ cacheOk = [r \in 1..MaxRuns |-> r = 1]
  /\ FnIdle

NextLoad ==
  \/ load_open
  \/ scan_taxa_row
  \/ taxa_eof
  \/ scan_vern_row
  \/ vern_eof

SpecLoad == InitLoad /\ [][NextLoad]_vars

\* the label loop and the writer over any labels.csv, the mapping loaded
InitLabels ==
  /\ taxaFile = SmallTaxa
  /\ vernFile \in SmallVerns
  /\ remote = [valid |-> TRUE, taxa |-> taxaFile, vern |-> vernFile]
  /\ zipFile = [exists |-> TRUE, content |-> remote]
  /\ extractedDir = TRUE
  /\ cacheDir = TRUE
  /\ labelsFile \in {Absent}
       \cup {File(<<>>, r) : r \in BoundedSeq(LabelRowPool, MaxLabelRows)}
       \cup {File(<<>>, <<<<l>>>>) : l \in BoundedSeq(FnAlphabet, MaxLen - 1)}
  /\ outputFile = Absent
  /\ ProcStart("open_labels")
  /\ species_mapping \in {EmptyDict, {[k |-> S_Cc, v |-> S_R]}}
  /\ cacheOk = [r \in 1..MaxRuns |-> r = 1]
  /\ FnIdle

NextLabels ==
  \/ open_labels
  \/ read_label_row
  \/ write_output
  \/ main_return
  \/ main_except

SpecLabels == InitLabels /\ [][NextLabels]_vars

\* the two pure functions over every short label
InitFn ==
  /\ arg \in FnLabels
  /\ ret_sci = FALSE
  /\ ret_fmt = <<>>
  /\ fnpc = "start"
  /\ remote = [valid |-> FALSE, taxa |-> Absent, vern |-> Absent]
  /\ zipFile = [exists |-> FALSE, content |-> remote]
  /\ taxaFile = Absent
  /\ vernFile = Absent
  /\ extractedDir = FALSE
  /\ cacheDir = FALSE
  /\ labelsFile = Absent
  /\ outputFile = Absent
  /\ ProcStart("ensure_cache_dir")
  /\ species_mapping = EmptyDict
  /\ cacheOk = [r \in 1..MaxRuns |-> FALSE]

NextFn ==
  \/ call_is_scientific_name
  \/ call_format_non_species_label

SpecFn == InitFn /\ [][NextFn]_vars

\* ------------------------------------------------- vocabulary of the claims
\* s without its leading and trailing whitespace, said without recursion
Trimmed(s) ==
  IF \A i \in DOMAIN s : s[i] \in WhiteChars THEN <<>>
  ELSE LET a == CHOOSE i \in DOMAIN s :
                  s[i] \notin WhiteChars /\ \A j \in 1..(i - 1) : s[j] \in WhiteChars
           b == CHOOSE i \in DOMAIN s :
                  s[i] \notin WhiteChars /\ \A j \in (i + 1)..Len(s) : s[j] \in WhiteChars
       IN SubSeq(s, a, b)

UnderscoresToSpaces(s) == [i \in DOMAIN s |-> IF s[i] = "_" THEN " " ELSE s[i]]

HasParenthesized(s) ==
  \E i \in DOMAIN s : s[i] = "(" /\ \E k \in (i + 1)..Len(s) : s[k] = ")"
FirstOpen(s) == CHOOSE i \in DOMAIN s : s[i] = "(" /\ \A j \in 1..(i - 1) : s[j] # "("
FirstCloseAfter(s, i) ==
  CHOOSE k \in (i + 1)..Len(s) : s[k] = ")" /\ \A j \in (i + 1)..(k - 1) : s[j] # ")"

\* every "(" ... ")" removed and nothing else
RECURSIVE WithoutParenthesized(_)
WithoutParenthesized(s) ==
  IF HasParenthesized(s)
    THEN LET i == FirstOpen(s)
             k == FirstCloseAfter(s, i)
         IN SubSeq(s, 1, i - 1) \o WithoutParenthesized(SubSeq(s, k + 1, Len(s)))
    ELSE s

\* every "(" ... ")" removed together with the whitespace right before it
RECURSIVE WithoutParenthesizedAndGap(_)
WithoutParenthesizedAndGap(s) ==
  IF HasParenthesized(s)
    THEN LET i == FirstOpen(s)
             k == FirstCloseAfter(s, i)
             before == SubSeq(s, 1, i - 1)
             kept == IF \A j \in DOMAIN before : before[j] \in WhiteChars
                       THEN <<>>
                       ELSE SubSeq(before, 1,
                              CHOOSE b \in DOMAIN before :
                                /\ before[b] \notin WhiteChars
                                /\ \A j \in (b + 1)..Len(before) :
                                     before[j] \in WhiteChars)
         IN kept \o WithoutParenthesizedAndGap(SubSeq(s, k + 1, Len(s)))
    ELSE s

\* two whitespace-separated alphabetic tokens, Capitalised then lowercase
TwoTokenBinomial(l) ==
  /\ \A i \in DOMAIN l : l[i] \notin {"_", "("}
  /\ \E a \in DOMAIN l : \E b \in a..Len(l) : \E c \in (b + 2)..Len(l) :
       \E d \in c..Len(l) :
         /\ \A i \in 1..(a - 1) : l[i] \in WhiteChars
         /\ \A i \in (b + 1)..(c - 1) : l[i] \in WhiteChars
         /\ \A i \in (d + 1)..Len(l) : l[i] \in WhiteChars
         /\ \A i \in a..b : l[i] \in UpperChars \cup LowerChars
         /\ \A i \in c..d : l[i] \in UpperChars \cup LowerChars
         /\ l[a] \in UpperChars
         /\ l[c] \in LowerChars

\* ------------------------------------------------------------------ claims
\* C9: is_scientific_name(label) is True exactly when the label has no
\* underscore and no "(", splits on whitespace into two tokens, the first
\* capitalised and alphabetic, the second lowercase-initial and alphabetic;
\* it never raises; "Corvus corax" is True, "Corvus_corax", "Corvus corax
\* linnaeus", "corvus corax" and the empty label are False.
C9_IsScientificName ==
  /\ fnpc # "raised"
  /\ fnpc = "classified" =>
       /\ ret_sci <=> TwoTokenBinomial(arg)
       /\ arg = CorvusCorax => ret_sci
       /\ arg \in {Corvus_corax, CorvusCoraxLinnaeus, corvusCorax, <<>>} => ~ret_sci
C9_Witness ==
  fnpc = "classified" /\ ret_sci /\ arg = <<"C", "c", " ", " ", "c">>

\* C10 as stated: format_non_species_label(label) is the label with every
\* underscore replaced by a space, then every parenthesized substring and
\* nothing else removed, then trimmed.
C10_Original ==
  fnpc = "formatted" =>
    ret_fmt = Trimmed(WithoutParenthesized(UnderscoresToSpaces(arg)))

\* C10 amended: format_non_species_label(label) is the label with every
\* underscore replaced by a space, then every parenthesized substring removed
\* together with the whitespace right before its "(", then trimmed; the
\* result has no underscore and no "(" ... ")", and "Human_vocal_(song)"
\* gives "Human vocal".
C10_Format ==
  fnpc = "formatted" =>
    /\ ret_fmt = Trimmed(WithoutParenthesizedAndGap(UnderscoresToSpaces(arg)))
    /\ \A i \in DOMAIN ret_fmt : ret_fmt[i] # "_"
    /\ ~HasParenthesized(ret_fmt)
    /\ arg = HumanVocalSong => ret_fmt = HumanVocal
C10_Witness ==
  /\ fnpc = "formatted"
  /\ arg = <<"c", "_", "(", "c", ")", "_", "c">>
  /\ ret_fmt = <<"c", " ", "c">>

\* the vernacular scan has delivered rows 1..rowIdx without raising
VernScanned ==
  /\ taxaFile.exists
  /\ vernFile.exists
  /\ pc \in {"scan_vern", "open_labels"}

\* row i of VernacularName.tsv names a taxon of the index filed under s
RowIsFor(i, s) ==
  LET row == vernFile.rows[i] IN
  /\ Len(row) >= 3
  /\ Has(bird_taxa, row[1])
  /\ Lookup(bird_taxa, row[1]) = s

\* what the claim as stated calls a qualifying row
QualifiesAsStated(i, s) ==
  LET row == vernFile.rows[i] IN
  /\ RowIsFor(i, s)
  /\ lower(row[3]) \in EnglishCodes
  /\ row[2] # <<>>

\* what the code takes: language and name are both stripped first
Qualifies(i, s) ==
  LET row == vernFile.rows[i] IN
  /\ RowIsFor(i, s)
  /\ lower(Trimmed(row[3])) \in EnglishCodes
  /\ Trimmed(row[2]) # <<>>

IndexedNames == {e.v : e \in bird_taxa} \cup Keys(species_mapping)
FirstOf(Q) == CHOOSE i \in Q : \A j \in Q : i <= j

\* C2 as stated: species_mapping holds, per scientific name, the stripped
\* name of the first row for it whose language lowercased is en/eng/english
\* and whose name is non-empty, and nothing for names without such a row.
C2_Original ==
  VernScanned =>
    \A s \in IndexedNames :
      LET Q == {i \in 1..rowIdx : QualifiesAsStated(i, s)} IN
      IF Q # {}
        THEN Has(species_mapping, s)
             /\ Lookup(species_mapping, s) = Trimmed(vernFile.rows[FirstOf(Q)][2])
        ELSE ~Has(species_mapping, s)

\* C2 amended: species_mapping holds at most one common name per scientific
\* name; per scientific name it holds the stripped name of the first row in
\* file order whose taxon id is in the index for that name, whose language
\* stripped and lowercased is en/eng/english and whose stripped name is
\* non-empty; later rows never overwrite it; names without such a row are
\* absent.
C2_FirstMatchWins ==
  VernScanned =>
    /\ \A e1 \in species_mapping : \A e2 \in species_mapping :
         e1.k = e2.k => e1 = e2
    /\ \A s \in IndexedNames :
         LET Q == {i \in 1..rowIdx : Qualifies(i, s)} IN
         IF Q # {}
           THEN Has(species_mapping, s)
                /\ Lookup(species_mapping, s) = Trimmed(vernFile.rows[FirstOf(Q)][2])
           ELSE ~Has(species_mapping, s)
C2_Witness ==
  /\ VernScanned
  /\ pc = "open_labels"
  /\ \E s \in IndexedNames : \E i \in 1..rowIdx : \E j \in 1..rowIdx :
       /\ i < j
       /\ Qualifies(i, s)
       /\ Qualifies(j, s)
       /\ Trimmed(vernFile.rows[i][2]) # Trimmed(vernFile.rows[j][2])
       /\ Lookup(species_mapping, s) = Trimmed(vernFile.rows[i][2])

\* C6: no row of NameUsage.tsv or VernacularName.tsv, a row shorter than the
\* header included, puts load_bird_species_mapping into an error state.
C6_MalformedRowsNeverRaise == pc # "except"

\* C3: every record process_labels appends has display_name = common_name
\* when its label is scientific and has a common name, and otherwise
\* display_name = format_non_species_label(original_label), which for a
\* scientific label is the label unchanged.
C3_LabelRecord ==
  \A i \in DOMAIN enhanced_labels :
    LET r == enhanced_labels[i]
        L == r.original_label
        sci == TwoTokenBinomial(L)
        named == sci /\ Has(species_mapping, L) /\ Lookup(species_mapping, L) # <<>>
    IN IF named
         THEN r.display_name = r.common_name
              /\ r.common_name = Lookup(species_mapping, L)
         ELSE r.display_name = format_non_species_label(L)
              /\ (sci => r.display_name = L)
C3_Witness ==
  /\ \E i \in DOMAIN enhanced_labels :
       /\ enhanced_labels[i].original_label = S_Cc
       /\ enhanced_labels[i].display_name = S_R
  /\ \E i \in DOMAIN enhanced_labels :
       /\ enhanced_labels[i].original_label = S_Dd
       /\ enhanced_labels[i].display_name = S_Dd

\* C4: a record's display_name is empty only if its original_label is empty.
C4_DisplayNeverEmpty ==
  \A i \in DOMAIN enhanced_labels :
    enhanced_labels[i].display_name = <<>> => enhanced_labels[i].original_label = <<>>

NonBlankRows == SelectSeq(labelsFile.rows, LAMBDA r : r # <<>>)

\* C5 as stated: the output is the header and one three-column row per input
\* label in input order, row i carrying input label i as original_label.
C5_Original ==
  outputFile.exists =>
    /\ outputFile.rows[1] = OutputHeader
    /\ Len(outputFile.rows) = 1 + Len(NonBlankRows)
    /\ \A i \in 1..Len(NonBlankRows) :
         /\ Len(outputFile.rows[i + 1]) = 3
         /\ outputFile.rows[i + 1][1] = NonBlankRows[i][1]

\* C5 amended: the output is the header original_label,common_name,
\* display_name and one three-column row per input label in input order, row
\* i carrying input label i stripped of leading and trailing whitespace as
\* original_label; no label is dropped, duplicated or reordered.
C5_OutputShape ==
  outputFile.exists =>
    /\ outputFile.rows[1] = OutputHeader
    /\ Len(outputFile.rows) = 1 + Len(NonBlankRows)
    /\ \A i \in 1..Len(NonBlankRows) :
         /\ Len(outputFile.rows[i + 1]) = 3
         /\ outputFile.rows[i + 1][1] = Trimmed(NonBlankRows[i][1])
C5_Witness ==
  /\ outputFile.exists
  /\ Len(outputFile.rows) = 3
  /\ outputFile.rows[2][1] # outputFile.rows[3][1]
  /\ \E i \in DOMAIN labelsFile.rows :
       labelsFile.rows[i] # <<>> /\ Trimmed(labelsFile.rows[i][1]) # labelsFile.rows[i][1]

\* the current run is past the extraction step with a table missing
TableMissing == cacheOk[run] /\ (~taxaFile.exists \/ ~vernFile.exists)
ReachedLabels ==
  \/ pc \in {"read_labels", "return"}
  \/ pc = "exited" /\ exc = "none"

\* C1: once a run has completed ensure_cache_dir, download_col_data and
\* extract_col_data, the next run over the unchanged cache directory makes no
\* download and no extraction, whatever the archive holds.
C1_CacheIdempotent ==
  \A r \in 2..run :
    cacheOk[r - 1] => netCalls[r] = 0 /\ extractCalls[r] = 0

\* C7 as stated: with labels.csv absent, or with NameUsage.tsv or
\* VernacularName.tsv absent after the extraction step, the run aborts and
\* reaches neither label processing nor output writing.
C7_Original ==
  (~labelsFile.exists \/ TableMissing) => ~ReachedLabels /\ ~outputFile.exists

\* C7 amended: with labels.csv absent the run aborts as a fatal error and
\* reaches neither label processing nor output writing; with NameUsage.tsv
\* or VernacularName.tsv absent after the extraction step the run is not
\* aborted: load_bird_species_mapping returns the empty mapping and, when
\* labels.csv is there, the run ends without error having written
\* enhanced_labels.csv with every common_name empty.
C7_MissingInput ==
  /\ ~labelsFile.exists =>
       /\ ~ReachedLabels
       /\ ~outputFile.exists
       /\ pc = "exited" => exc # "none"
  /\ TableMissing =>
       /\ species_mapping = EmptyDict
       /\ pc \notin {"scan_taxa", "scan_vern"}
       /\ (labelsFile.exists /\ pc = "exited") =>
            /\ exc = "none"
            /\ outputFile.exists
            /\ \A i \in 2..Len(outputFile.rows) : outputFile.rows[i][2] = <<>>
C7_Witness ==
  /\ ~labelsFile.exists
  /\ TableMissing
  /\ pc = "exited"
  /\ exc = "FileNotFoundError"

\* C8: a run that failed has printed the message and the trace and ends with
\* a non-zero exit status; exit status zero means the run had no error.
C8_NonZeroExit ==
  pc = "exited" =>
    /\ exc # "none" => tracePrinted /\ exitStatus # 0
    /\ exitStatus = 0 => exc = "none"

====
